---- MODULE Spec2Model ----
(***************************************************************************)
(* Model of src/src/app.py: the EBSCleaner class and lambda_handler.       *)
(*                                                                         *)
(* The EC2 account is the pair (volumes, snapshots).  One invocation of    *)
(* lambda_handler is a walk of pc through                                  *)
(*   get_volumes -> delete_volumes -> get_snapshots -> scan_snapshots      *)
(*   -> delete_snapshots -> return -> done            (or -> raised)       *)
(* Time is counted in ticks, TicksPerDay of them to a day, so that a       *)
(* datetime comparison and a timedelta.days truncation can disagree.       *)
(* The fields Size and Description are only logged and are left out.       *)
(***************************************************************************)
EXTENDS Integers, Sequences, FiniteSets, TLC

\* ------------------------------------------------------------------ bounds
TicksPerDay == 2      \* clock resolution: ticks in one day
MaxTicks == 1         \* how far the clock may advance past Now0
MaxRuns == 2          \* invocations of lambda_handler in one behaviour

\* ------------------------------------------------------------- parameters
VolumeIds == {1, 2}
SnapshotIds == {1, 2}
BatchIds == {1, 2, 3}
NoVolumeId == 0       \* snapshot.get('VolumeId') of a snapshot without one
DefaultRetentionDays == 7

Now0 == (DefaultRetentionDays + 1) * TicksPerDay
\* creation instants: 8 days old, 7 days and a fraction, exactly 7 days, just now
CreateTimes == (0 .. TicksPerDay) \cup {Now0}
StartTimes == {0, TicksPerDay}
VolumeStates == {"available", "in-use"}
RetentionInputs == {0 - 1, 0}

Absent == [exists |-> FALSE, State |-> "deleted", CreateTime |-> 0]
AbsentSnapshot == [exists |-> FALSE, VolumeId |-> NoVolumeId, StartTime |-> 0]

VolumeRecords ==
    {Absent} \cup [exists : {TRUE}, State : VolumeStates, CreateTime : CreateTimes]
SnapshotRecords(vids) ==
    {AbsentSnapshot} \cup
    [exists : {TRUE}, VolumeId : vids \cup {NoVolumeId}, StartTime : StartTimes]

Events ==
    {[keys |-> {}, retention_days |-> 0]} \cup
    [keys : {{"retention_days"}}, retention_days : RetentionInputs]

VARIABLES
    volumes,              \* account: volume id -> record
    snapshots,            \* account: snapshot id -> record
    now,                  \* datetime.now(timezone.utc), in ticks
    pc,                   \* position of lambda_handler
    run,                  \* number of invocations started
    event,                \* payload of the current invocation
    retention_days,       \* EBSCleaner.retention_days
    retention_date,       \* local of the discovery function in progress
    volumes_to_delete,    \* list built by get_volumes_to_delete
    snapshots_to_delete,  \* list built by get_snapshots_to_delete
    idx,                  \* position of the loop in progress
    calls,                \* EC2 calls made by this invocation
    log,                  \* resources named by this invocation's log lines
    err,                  \* what made this invocation raise
    result,               \* value returned by this invocation
    prev,                 \* what the previous invocation left behind
    firstNow,             \* clock reading at the first volume discovery
    scheduled             \* invocations the trigger will make

vars == <<volumes, snapshots, now, pc, run, event, retention_days,
          retention_date, volumes_to_delete, snapshots_to_delete, idx,
          calls, log, err, result, prev, firstNow, scheduled>>

\* ---------------------------------------------------------------- helpers
RECURSIVE Sorted(_)
Sorted(S) ==
    IF S = {} THEN <<>>
    ELSE LET m == CHOOSE x \in S : \A y \in S : x <= y
         IN <<m>> \o Sorted(S \ {m})

Ids(list, field) == {list[n][field] : n \in 1 .. Len(list)}
IdSeq(list, field) == [n \in 1 .. Len(list) |-> list[n][field]]

\* (datetime.now(timezone.utc) - t).days
AgeDays(t) == (now - t) \div TicksPerDay

NoCalls == [delete_volume |-> <<>>, delete_snapshot |-> <<>>, describe_volumes |-> {}]
NoLog == [deleted_volumes |-> {}, failed_volumes |-> {},
          deleted_snapshots |-> {}, skipped_snapshots |-> {}, failed_snapshots |-> {}]
NoResult == [statusCode |-> 0, body |-> [volumes |-> 0, snapshots |-> 0]]
Counts(l) == [deleted_volumes |-> Cardinality(l.deleted_volumes),
              failed_volumes |-> Cardinality(l.failed_volumes),
              deleted_snapshots |-> Cardinality(l.deleted_snapshots),
              skipped_snapshots |-> Cardinality(l.skipped_snapshots),
              failed_snapshots |-> Cardinality(l.failed_snapshots)]
NoPrev == [completed |-> FALSE, clean |-> FALSE, result |-> NoResult, counts |-> Counts(NoLog)]

\* ------------------------------------------------------------------- code
\* variant: __init__ takes the threshold from the payload
InitRetentionDaysFromEvent(e) ==
    IF "retention_days" \in e.keys THEN e.retention_days ELSE DefaultRetentionDays

\* EBSCleaner.__init__
InitRetentionDays(e) == DefaultRetentionDays

\* datetime.now(timezone.utc) - timedelta(days=self.retention_days)
RetentionDate(days) == now - days * TicksPerDay

\* variant: the paginator is called without the status filter
StatusFilterAny(v) == v.exists

\* describe_volumes paginator with Filters status = available
StatusFilter(v) == v.exists /\ v.State = "available"

\* variant: <= instead of <
OlderThanOrEqual(t, date) == t <= date

\* volume['CreateTime'] < retention_date
OlderThan(t, date) == t < date

\* variant: the loop stops one element early
NextPcOffByOne(loopPc, afterPc, i, list) == IF i >= Len(list) THEN afterPc ELSE loopPc

\* for ... in ...: the loop goes on while elements remain
NextPc(loopPc, afterPc, i, list) == IF i > Len(list) THEN afterPc ELSE loopPc

\* variant: no except clause, a failed delete leaves the handler
AfterDeleteRaising(response, loopPc, afterPc, i, list) ==
    IF response = "ok" THEN IF i > Len(list) THEN afterPc ELSE loopPc
    ELSE "raised"

\* except ClientError in the delete loops: the error is logged, not raised, so
\* whatever the answer the loop goes on with the next element
AfterDelete(response, loopPc, afterPc, i, list) == NextPc(loopPc, afterPc, i, list)

\* the listing of get_volumes_to_delete, in listing order
ListedVolumes == SelectSeq(Sorted(DOMAIN volumes), LAMBDA v : StatusFilter(volumes[v]))

VolumeEntry(v) == [VolumeId |-> v, Age |-> AgeDays(volumes[v].CreateTime)]

SelectedVolumes(date) ==
    LET old == SelectSeq(ListedVolumes, LAMBDA v : OlderThan(volumes[v].CreateTime, date))
    IN [n \in 1 .. Len(old) |-> VolumeEntry(old[n])]

\* describe_snapshots paginator with OwnerIds = self
ListedSnapshots == SelectSeq(Sorted(DOMAIN snapshots), LAMBDA s : snapshots[s].exists)

SnapshotEntry(s) == [SnapshotId |-> s, VolumeId |-> snapshots[s].VolumeId,
                     Age |-> AgeDays(snapshots[s].StartTime)]

\* what describe_volumes(VolumeIds=[volume_id]) can answer
DescribeVolumeResponses(v) ==
    (IF v \in DOMAIN volumes /\ volumes[v].exists
        THEN {volumes[v].State} ELSE {"InvalidVolume.NotFound"})
    \cup {"RequestLimitExceeded"}

\* the answers get_snapshots_to_delete can meet on one snapshot
ResponsesFor(s, date) ==
    IF OlderThan(snapshots[s].StartTime, date) /\ snapshots[s].VolumeId # NoVolumeId
        THEN DescribeVolumeResponses(snapshots[s].VolumeId)
        ELSE {"no lookup"}

\* variant: any volume that exists makes the snapshot deletable
ShouldDeleteSnapshotAnyState(volume_id, response) ==
    IF volume_id = NoVolumeId THEN "True"
    ELSE IF response = "InvalidVolume.NotFound" THEN "True"
    ELSE IF response \in VolumeStates THEN "True"
    ELSE "raise"

\* variant: a snapshot without a volume id is kept
ShouldDeleteSnapshotKeepNoId(volume_id, response) ==
    IF volume_id = NoVolumeId THEN "False"
    ELSE IF response = "InvalidVolume.NotFound" THEN "True"
    ELSE IF response \in VolumeStates
        THEN (IF response = "available" THEN "True" ELSE "False")
    ELSE "raise"

\* variant: InvalidVolume.NotFound is not told apart, the snapshot is kept
ShouldDeleteSnapshotKeepNotFound(volume_id, response) ==
    IF volume_id = NoVolumeId THEN "True"
    ELSE IF response = "InvalidVolume.NotFound" THEN "False"
    ELSE IF response \in VolumeStates
        THEN (IF response = "available" THEN "True" ELSE "False")
    ELSE "raise"

\* variant: every ClientError of the lookup is swallowed, the snapshot is kept
ShouldDeleteSnapshotSwallow(volume_id, response) ==
    IF volume_id = NoVolumeId THEN "True"
    ELSE IF response = "InvalidVolume.NotFound" THEN "True"
    ELSE IF response \in VolumeStates
        THEN (IF response = "available" THEN "True" ELSE "False")
    ELSE "False"

\* EBSCleaner._should_delete_snapshot: "True", "False" or "raise"
ShouldDeleteSnapshot(volume_id, response) ==
    IF volume_id = NoVolumeId THEN "True"
    ELSE IF response = "InvalidVolume.NotFound" THEN "True"
    ELSE IF response \in VolumeStates
        THEN (IF response = "available" THEN "True" ELSE "False")
    ELSE "raise"

\* variant: the summary counts the resources that were deleted
SummaryDeletedOnly(vs, ss) ==
    [statusCode |-> 200,
     body |-> [volumes |-> Cardinality(log.deleted_volumes),
               snapshots |-> Cardinality(log.deleted_snapshots)]]

\* the dict returned by lambda_handler
Summary(vs, ss) == [statusCode |-> 200,
                    body |-> [volumes |-> Len(vs), snapshots |-> Len(ss)]]

\* what delete_volume can answer
DeleteVolumeResponses(v) ==
    IF volumes[v].exists /\ volumes[v].State = "available"
        THEN {"ok", "ClientError"} ELSE {"ClientError"}

DeleteSnapshotResponses(s) ==
    IF snapshots[s].exists
        THEN {"ok", "InvalidSnapshot.InUse", "ClientError"} ELSE {"ClientError"}

\* ---------------------------------------------------------------- actions
TypeInit(vols, snaps, n) ==
    /\ volumes \in vols
    /\ snapshots \in snaps
    /\ scheduled = n
    /\ now = Now0
    /\ pc = "idle"
    /\ run = 0
    /\ event = [keys |-> {}, retention_days |-> 0]
    /\ retention_days = DefaultRetentionDays
    /\ retention_date = 0
    /\ volumes_to_delete = <<>>
    /\ snapshots_to_delete = <<>>
    /\ idx = 1
    /\ calls = NoCalls
    /\ log = NoLog
    /\ err = "none"
    /\ result = NoResult
    /\ prev = NoPrev
    /\ firstNow = Now0

\* one invocation on an account of two volumes and two snapshots
Init == TypeInit([VolumeIds -> VolumeRecords], [SnapshotIds -> SnapshotRecords(VolumeIds)], 1)

\* successive invocations on an account of two volumes and one snapshot
InitRerun ==
    TypeInit([VolumeIds -> VolumeRecords],
             [{1} -> [exists : {TRUE}, VolumeId : {NoVolumeId, 1}, StartTime : StartTimes]],
             MaxRuns)

\* one invocation on an account whose three volumes and three snapshots are
\* all past the retention period
InitBatch ==
    TypeInit([BatchIds -> [exists : {TRUE}, State : {"available"}, CreateTime : {0}]],
             [BatchIds -> [exists : {TRUE}, VolumeId : {NoVolumeId, 1}, StartTime : {0}]],
             1)

\* the clock advances.  The code reads it only in get_volumes_to_delete and in
\* get_snapshots_to_delete, so an advance anywhere else is the same as one just
\* before the next read.
Tick ==
    /\ pc \in {"get_volumes", "get_snapshots", "scan_snapshots"}
    /\ now < Now0 + MaxTicks
    /\ now' = now + 1
    /\ UNCHANGED <<volumes, snapshots, pc, run, event, retention_days,
                   retention_date, volumes_to_delete, snapshots_to_delete, idx,
                   calls, log, err, result, prev, firstNow, scheduled>>

\* lambda_handler is invoked: cleaner = EBSCleaner()
Invoke(e) ==
    /\ pc \in {"idle", "done", "raised"}
    /\ run < scheduled
    /\ run' = run + 1
    /\ event' = e
    /\ retention_days' = InitRetentionDays(e)
    /\ pc' = "get_volumes"
    /\ volumes_to_delete' = <<>>
    /\ snapshots_to_delete' = <<>>
    /\ idx' = 1
    /\ calls' = NoCalls
    /\ log' = NoLog
    /\ err' = "none"
    /\ result' = NoResult
    /\ prev' = IF run = 0 THEN prev
               ELSE [completed |-> pc = "done",
                     clean |-> /\ pc = "done"
                               /\ log.failed_volumes = {}
                               /\ log.failed_snapshots = {}
                               /\ log.skipped_snapshots = {},
                     result |-> result,
                     counts |-> Counts(log)]
    /\ UNCHANGED <<volumes, snapshots, now, retention_date, firstNow, scheduled>>

\* get_volumes_to_delete returns its list.  The listing is taken as
\* instantaneous: the clock read for retention_date and the one read for Age
\* give the same instant.
GetVolumesToDelete ==
    /\ pc = "get_volumes"
    /\ retention_date' = RetentionDate(retention_days)
    /\ volumes_to_delete' = SelectedVolumes(retention_date')
    /\ idx' = 1
    /\ pc' = NextPc("delete_volumes", "get_snapshots", 1, volumes_to_delete')
    /\ firstNow' = IF run = 1 THEN now ELSE firstNow
    /\ UNCHANGED <<volumes, snapshots, now, run, event, retention_days,
                   snapshots_to_delete, calls, log, err, result, prev, scheduled>>

\* the describe_volumes paginator raises ClientError: logged and re-raised
GetVolumesFail ==
    /\ pc = "get_volumes"
    /\ retention_date' = RetentionDate(retention_days)
    /\ err' = "list_volumes"
    /\ pc' = "raised"
    /\ UNCHANGED <<volumes, snapshots, now, run, event, retention_days,
                   volumes_to_delete, snapshots_to_delete, idx, calls, log,
                   result, prev, firstNow, scheduled>>

\* one iteration of the loop of delete_volumes
DeleteVolume(response) ==
    /\ pc = "delete_volumes"
    /\ idx <= Len(volumes_to_delete)
    /\ LET v == volumes_to_delete[idx].VolumeId IN
        /\ response \in DeleteVolumeResponses(v)
        /\ calls' = [calls EXCEPT !.delete_volume = Append(@, v)]
        /\ IF response = "ok"
              THEN /\ volumes' = [volumes EXCEPT ![v] = Absent]
                   /\ log' = [log EXCEPT !.deleted_volumes = @ \cup {v}]
              ELSE /\ volumes' = volumes
                   /\ log' = [log EXCEPT !.failed_volumes = @ \cup {v}]
    /\ idx' = idx + 1
    /\ pc' = AfterDelete(response, "delete_volumes", "get_snapshots", idx', volumes_to_delete)
    /\ UNCHANGED <<snapshots, now, run, event, retention_days, retention_date,
                   volumes_to_delete, snapshots_to_delete, err, result, prev,
                   firstNow, scheduled>>

\* get_snapshots_to_delete starts: retention_date, first page of the paginator
GetSnapshotsToDelete ==
    /\ pc = "get_snapshots"
    /\ retention_date' = RetentionDate(retention_days)
    /\ snapshots_to_delete' = <<>>
    /\ idx' = 1
    /\ pc' = NextPc("scan_snapshots", "return", 1, ListedSnapshots)
    /\ UNCHANGED <<volumes, snapshots, now, run, event, retention_days,
                   volumes_to_delete, calls, log, err, result, prev, firstNow, scheduled>>

\* the describe_snapshots paginator raises ClientError: logged and re-raised
GetSnapshotsFail ==
    /\ pc \in {"get_snapshots", "scan_snapshots"}
    /\ retention_date' = IF pc = "get_snapshots"
                            THEN RetentionDate(retention_days) ELSE retention_date
    /\ err' = "list_snapshots"
    /\ pc' = "raised"
    /\ UNCHANGED <<volumes, snapshots, now, run, event, retention_days,
                   volumes_to_delete, snapshots_to_delete, idx, calls, log,
                   result, prev, firstNow, scheduled>>

\* one iteration of the loop of get_snapshots_to_delete
EvaluateSnapshot(response) ==
    /\ pc = "scan_snapshots"
    /\ idx <= Len(ListedSnapshots)
    /\ LET s == ListedSnapshots[idx]
           volume_id == snapshots[s].VolumeId
           old == OlderThan(snapshots[s].StartTime, retention_date)
           verdict == IF old THEN ShouldDeleteSnapshot(volume_id, response) ELSE "False"
       IN
        /\ response \in ResponsesFor(s, retention_date)
        /\ calls' = IF response = "no lookup" THEN calls
                    ELSE [calls EXCEPT !.describe_volumes = @ \cup {<<s, response>>}]
        /\ snapshots_to_delete' = IF verdict = "True"
                                     THEN Append(snapshots_to_delete, SnapshotEntry(s))
                                     ELSE snapshots_to_delete
        /\ IF verdict = "raise"
              THEN /\ err' = "lookup"
                   /\ pc' = "raised"
                   /\ idx' = idx
              ELSE /\ err' = err
                   /\ pc' = NextPc("scan_snapshots",
                                   NextPc("delete_snapshots", "return", 1, snapshots_to_delete'),
                                   idx + 1, ListedSnapshots)
                   /\ idx' = IF idx + 1 > Len(ListedSnapshots) THEN 1 ELSE idx + 1
    /\ UNCHANGED <<volumes, snapshots, now, run, event, retention_days,
                   retention_date, volumes_to_delete, log, result, prev, firstNow, scheduled>>

\* one iteration of the loop of delete_snapshots
DeleteSnapshot(response) ==
    /\ pc = "delete_snapshots"
    /\ idx <= Len(snapshots_to_delete)
    /\ LET s == snapshots_to_delete[idx].SnapshotId IN
        /\ response \in DeleteSnapshotResponses(s)
        /\ calls' = [calls EXCEPT !.delete_snapshot = Append(@, s)]
        /\ snapshots' = IF response = "ok"
                           THEN [snapshots EXCEPT ![s] = AbsentSnapshot]
                           ELSE snapshots
        /\ log' = IF response = "ok"
                     THEN [log EXCEPT !.deleted_snapshots = @ \cup {s}]
                  ELSE IF response = "InvalidSnapshot.InUse"
                     THEN [log EXCEPT !.skipped_snapshots = @ \cup {s}]
                  ELSE [log EXCEPT !.failed_snapshots = @ \cup {s}]
    /\ idx' = idx + 1
    /\ pc' = AfterDelete(response, "delete_snapshots", "return", idx', snapshots_to_delete)
    /\ UNCHANGED <<volumes, now, run, event, retention_days, retention_date,
                   volumes_to_delete, snapshots_to_delete, err, result, prev,
                   firstNow, scheduled>>

\* lambda_handler returns its summary
Return ==
    /\ pc = "return"
    /\ result' = Summary(volumes_to_delete, snapshots_to_delete)
    /\ pc' = "done"
    /\ UNCHANGED <<volumes, snapshots, now, run, event, retention_days,
                   retention_date, volumes_to_delete, snapshots_to_delete, idx,
                   calls, log, err, prev, firstNow, scheduled>>

Next ==
    \/ Tick
    \/ \E e \in Events : Invoke(e)
    \/ GetVolumesToDelete
    \/ GetVolumesFail
    \/ \E r \in {"ok", "ClientError"} : DeleteVolume(r)
    \/ GetSnapshotsToDelete
    \/ GetSnapshotsFail
    \/ \E r \in VolumeStates \cup {"InvalidVolume.NotFound", "RequestLimitExceeded", "no lookup"} :
          EvaluateSnapshot(r)
    \/ \E r \in {"ok", "InvalidSnapshot.InUse", "ClientError"} : DeleteSnapshot(r)
    \/ Return

Spec == Init /\ [][Next]_vars
SpecRerun == InitRerun /\ [][Next]_vars
SpecBatch == InitBatch /\ [][Next]_vars

\* ----------------------------------------------------------------- claims
Range(list) == {list[n] : n \in 1 .. Len(list)}
SelectedVolumeIds == Ids(volumes_to_delete, "VolumeId")
SelectedSnapshotIds == Ids(snapshots_to_delete, "SnapshotId")
Position(list, x) == CHOOSE n \in 1 .. Len(list) : list[n] = x

\* volume discovery has just returned and nothing has been deleted yet
JustDiscovered ==
    \/ pc = "delete_volumes" /\ idx = 1
    \/ pc = "get_snapshots" /\ volumes_to_delete = <<>>

\* time between a volume's creation and the clock reading of volume discovery
ElapsedAtDiscovery(v) ==
    retention_date + retention_days * TicksPerDay - volumes[v].CreateTime

\* the loop of get_snapshots_to_delete has gone past snapshot s
Evaluated(s) ==
    \/ pc \in {"delete_snapshots", "return", "done"}
    \/ /\ pc = "scan_snapshots"
       /\ \E n \in 1 .. Len(ListedSnapshots) : ListedSnapshots[n] = s /\ n < idx

OriginGone(s) ==
    /\ snapshots[s].VolumeId # NoVolumeId
    /\ ~ volumes[snapshots[s].VolumeId].exists

\* C1: a volume whose status is not available is never in the volume deletion
\* set and delete_volume is never called on it, whatever its age.
C1_OnlyAvailableVolumes ==
    \A v \in DOMAIN volumes :
        (volumes[v].exists /\ volumes[v].State # "available")
            => /\ v \notin SelectedVolumeIds
               /\ v \notin Range(calls.delete_volume)

\* an in-use volume 8 days old survives a run that deleted another volume
C1_Witness ==
    /\ pc = "done"
    /\ log.deleted_volumes # {}
    /\ \E v \in DOMAIN volumes :
          /\ volumes[v].exists
          /\ volumes[v].State = "in-use"
          /\ AgeDays(volumes[v].CreateTime) > DefaultRetentionDays

\* C2: a snapshot whose origin volume exists in a state other than available
\* is never in the snapshot deletion set and delete_snapshot is never called
\* on it, however old it is.
C2_InUseOriginKept ==
    \A s \in DOMAIN snapshots :
        ( /\ snapshots[s].exists
          /\ snapshots[s].VolumeId # NoVolumeId
          /\ volumes[snapshots[s].VolumeId].exists
          /\ volumes[snapshots[s].VolumeId].State # "available" )
            => /\ s \notin SelectedSnapshotIds
               /\ s \notin Range(calls.delete_snapshot)

\* the lookup answered in-use for a snapshot 8 days old, and the run finished
C2_Witness ==
    /\ pc = "done"
    /\ \E s \in DOMAIN snapshots :
          /\ <<s, "in-use">> \in calls.describe_volumes
          /\ snapshots[s].exists
          /\ AgeDays(snapshots[s].StartTime) > DefaultRetentionDays

\* C3 as stated: an available volume is selected if and only if its age in
\* whole days is greater than the threshold.
C3_Original ==
    JustDiscovered =>
        \A v \in DOMAIN volumes :
            StatusFilter(volumes[v]) =>
                (v \in SelectedVolumeIds
                    <=> ElapsedAtDiscovery(v) \div TicksPerDay > DefaultRetentionDays)

\* C3 amended: an available volume is selected if and only if more than
\* threshold days have elapsed since its creation: whole-day age above the
\* threshold is selected, below it is not, and a whole-day age equal to the
\* threshold is selected unless the elapsed time is exactly threshold days.
C3_SelectedIffElapsedExceeds ==
    JustDiscovered =>
        \A v \in DOMAIN volumes :
            StatusFilter(volumes[v]) =>
                LET e == ElapsedAtDiscovery(v)
                    ageDays == e \div TicksPerDay
                IN /\ ageDays > DefaultRetentionDays => v \in SelectedVolumeIds
                   /\ ageDays < DefaultRetentionDays => v \notin SelectedVolumeIds
                   /\ ageDays = DefaultRetentionDays =>
                         (v \in SelectedVolumeIds <=> e % TicksPerDay # 0)

\* a volume of whole-day age 7 is selected next to one of exactly 7 days that is not
C3_Witness ==
    /\ JustDiscovered
    /\ \E n \in 1 .. Len(volumes_to_delete) : volumes_to_delete[n].Age = DefaultRetentionDays
    /\ \E v \in DOMAIN volumes :
          /\ StatusFilter(volumes[v])
          /\ ElapsedAtDiscovery(v) = DefaultRetentionDays * TicksPerDay
          /\ v \notin SelectedVolumeIds

VolumeBatchOver ==
    \/ pc \in {"get_snapshots", "scan_snapshots", "delete_snapshots", "return", "done"}
    \/ pc = "raised" /\ err # "list_volumes"

\* the loop of delete_snapshots is over
SnapshotBatchOver ==
    \/ pc \in {"return", "done"}
    \/ pc = "raised" /\ err = "none" /\ calls.delete_snapshot # <<>>

NothingDeleted ==
    /\ calls.delete_volume = <<>>
    /\ calls.delete_snapshot = <<>>
    /\ log = NoLog

\* C6 as stated: a run that follows a completed run, with the clock where it
\* was, calls no delete: it deletes nothing and no delete fails.
C6_Original ==
    (run >= 2 /\ prev.completed /\ now = firstNow /\ pc = "done") => NothingDeleted

\* C6 amended: when the first run completed with every delete call succeeding
\* and the clock has not advanced since it began, the second run selects
\* nothing and calls no delete, so it deletes nothing and no delete fails.
C6_SecondRunDeletesNothing ==
    (run >= 2 /\ prev.clean /\ now = firstNow) =>
        /\ volumes_to_delete = <<>>
        /\ snapshots_to_delete = <<>>
        /\ NothingDeleted

\* a second run that finished after a first run that deleted a volume and a
\* snapshot without failure
C6_Witness ==
    /\ run = 2
    /\ pc = "done"
    /\ prev.clean
    /\ now = firstNow
    /\ prev.counts.deleted_volumes > 0
    /\ prev.counts.deleted_snapshots > 0

\* C7 as stated: without the field the threshold is 7; with a value of 0 or
\* below every available volume is selected, whatever its age.
C7_Original ==
    /\ (run >= 1 /\ event.keys = {}) => retention_days = DefaultRetentionDays
    /\ (JustDiscovered /\ "retention_days" \in event.keys /\ event.retention_days <= 0) =>
          \A v \in DOMAIN volumes : StatusFilter(volumes[v]) => v \in SelectedVolumeIds

\* C7 amended: the entry point does not read the payload: the threshold is 7
\* days whether retention_days is absent or supplied, 0 and below included, so
\* an available volume created no more than 7 days ago is never selected.
C7_ThresholdAlwaysSeven ==
    /\ retention_days = DefaultRetentionDays
    /\ JustDiscovered =>
          \A v \in DOMAIN volumes :
              ElapsedAtDiscovery(v) <= DefaultRetentionDays * TicksPerDay
                  => v \notin SelectedVolumeIds

\* retention_days = 0 was supplied and an available volume created at the
\* instant of discovery was left out
C7_Witness ==
    /\ JustDiscovered
    /\ "retention_days" \in event.keys
    /\ event.retention_days = 0
    /\ \E v \in DOMAIN volumes :
          /\ StatusFilter(volumes[v])
          /\ ElapsedAtDiscovery(v) = 0
          /\ v \notin SelectedVolumeIds

\* C8 as stated: the returned result tells the outcomes apart, so two runs
\* that return the same result had the same numbers of deleted, failed and
\* skipped resources.
C8_Original ==
    (run >= 2 /\ pc = "done" /\ prev.completed /\ prev.result = result) =>
        prev.counts = Counts(log)

\* C8 amended: the result of a completed run is status 200 with two numbers,
\* the volumes and the snapshots that were selected, each counting every
\* selected resource whether its delete succeeded, failed or was skipped; the
\* outcomes are told apart only in the log, where a snapshot rejected as in
\* use is a skip, neither deleted nor failed, and a failed delete is not a
\* deletion.
C8_SummaryCountsSelected ==
    /\ pc = "done" =>
          /\ result.statusCode = 200
          /\ result.body.volumes = Len(volumes_to_delete)
          /\ result.body.volumes =
                Cardinality(log.deleted_volumes) + Cardinality(log.failed_volumes)
          /\ result.body.snapshots = Len(snapshots_to_delete)
          /\ result.body.snapshots =
                Cardinality(log.deleted_snapshots) + Cardinality(log.skipped_snapshots)
                    + Cardinality(log.failed_snapshots)
    /\ pc # "done" => result = NoResult
    /\ log.skipped_snapshots \cap (log.deleted_snapshots \cup log.failed_snapshots) = {}
    /\ log.deleted_snapshots \cap log.failed_snapshots = {}
    /\ log.deleted_volumes \cap log.failed_volumes = {}
    /\ \A s \in log.skipped_snapshots \cup log.failed_snapshots : snapshots[s].exists
    /\ \A v \in log.failed_volumes : volumes[v].exists

\* a run returned a summary counting a volume whose delete failed and a
\* snapshot that was skipped as in use
C8_Witness ==
    /\ pc = "done"
    /\ log.failed_volumes # {}
    /\ log.skipped_snapshots # {}
    /\ result.body.volumes > Cardinality(log.deleted_volumes)
    /\ result.body.snapshots > Cardinality(log.deleted_snapshots)

\* the snapshot phase has begun
SnapshotPhase ==
    \/ pc \in {"scan_snapshots", "delete_snapshots", "return", "done"}
    \/ err \in {"list_snapshots", "lookup"}
    \/ calls.describe_volumes # {}
    \/ calls.delete_snapshot # <<>>
    \/ snapshots_to_delete # <<>>

VolumesBeforeSnapshots ==
    SnapshotPhase => calls.delete_volume = IdSeq(volumes_to_delete, "VolumeId")

\* snapshots that exist, are past the retention date of the snapshot phase and
\* whose origin volume was deleted by this run
OriginDeletedThisRun ==
    {s \in DOMAIN snapshots :
        /\ snapshots[s].exists
        /\ snapshots[s].VolumeId \in log.deleted_volumes
        /\ OlderThan(snapshots[s].StartTime, retention_date)}

\* C9 as stated: snapshots are touched only after delete was called on every
\* selected volume, and when a run whose listings succeeded ends, every
\* snapshot past the retention date whose origin volume the run deleted has
\* been selected.
C9_Original ==
    /\ VolumesBeforeSnapshots
    /\ (pc \in {"done", "raised"} /\ err \notin {"list_volumes", "list_snapshots"}) =>
          OriginDeletedThisRun \subseteq SelectedSnapshotIds

\* C9 amended: snapshots are touched only after delete was called on every
\* selected volume, and when snapshot discovery completes every snapshot past
\* the retention date whose origin volume the run deleted has been selected;
\* a discovery that raises selects nothing.
C9_VolumesFirst ==
    /\ VolumesBeforeSnapshots
    /\ pc \in {"delete_snapshots", "return", "done"} =>
          OriginDeletedThisRun \subseteq SelectedSnapshotIds

\* a run deleted a volume and then selected and deleted a snapshot of it
C9_Witness ==
    /\ pc = "done"
    /\ \E n \in 1 .. Len(snapshots_to_delete) :
          /\ snapshots_to_delete[n].VolumeId \in log.deleted_volumes
          /\ snapshots_to_delete[n].SnapshotId \in log.deleted_snapshots
          /\ <<snapshots_to_delete[n].SnapshotId, "InvalidVolume.NotFound">>
                \in calls.describe_volumes

\* snapshots whose origin lookup failed with an error other than not-found
LookupFailed == {c[1] : c \in {d \in calls.describe_volumes : d[2] = "RequestLimitExceeded"}}

\* snapshots that exist, are past the retention date and are orphaned or of an
\* available volume
Eligible ==
    {s \in DOMAIN snapshots :
        /\ snapshots[s].exists
        /\ OlderThan(snapshots[s].StartTime, retention_date)
        /\ \/ snapshots[s].VolumeId = NoVolumeId
           \/ OriginGone(s)
           \/ volumes[snapshots[s].VolumeId].State = "available"}

\* C10 as stated: after a failed lookup the run leaves that snapshot out and
\* still calls delete on every other eligible snapshot.
C10_Original ==
    (pc \in {"done", "raised"} /\ LookupFailed # {}) =>
        /\ LookupFailed \cap SelectedSnapshotIds = {}
        /\ (Eligible \ LookupFailed) \subseteq Range(calls.delete_snapshot)

\* C10 amended: a lookup failure other than not-found propagates out of
\* get_snapshots_to_delete and lambda_handler: the run raises at that
\* snapshot, which is left out and kept, no snapshot at all is deleted in the
\* run and no result is returned; the volume deletions already made stand.
C10_LookupFailureAborts ==
    LookupFailed # {} =>
        /\ pc = "raised"
        /\ err = "lookup"
        /\ LookupFailed = {ListedSnapshots[idx]}
        /\ LookupFailed \cap SelectedSnapshotIds = {}
        /\ calls.delete_snapshot = <<>>
        /\ log.deleted_snapshots = {}
        /\ result = NoResult
        /\ \A v \in log.deleted_volumes : ~ volumes[v].exists

\* the lookup failed after a volume was deleted and another snapshot selected
C10_Witness ==
    /\ LookupFailed # {}
    /\ pc = "raised"
    /\ log.deleted_volumes # {}
    /\ snapshots_to_delete # <<>>
    /\ (Eligible \ LookupFailed) # {}

====
